---- MODULE Spec2Model ----
(***************************************************************************)
(* Model of validate_feeds.go: validateFeed (one URL: request             *)
(* construction, retry loop with backoff under one context deadline,      *)
(* body read, decode, classification) and main's dispatcher (weighted     *)
(* semaphore, one goroutine per URL, buffered result channel, closer      *)
(* goroutine, collecting loop, report counters).                          *)
(*                                                                         *)
(* Texts (URLs, error texts, messages) are sequences of tokens; a token   *)
(* is a string.  Time is counted in seconds since validateFeed created    *)
(* its context; timestamps of feeds are counted in months.                *)
(***************************************************************************)
EXTENDS Integers, Sequences, FiniteSets, TLC

----------------------------------------------------------------------------
(* Program constants *)

timeoutSeconds == 30

maxRetries == 3

\* transport.ResponseHeaderTimeout, in seconds
ResponseHeaderTimeout == 20

(* Bounds of the model *)

\* number of entries of the input URL list
NumURLs == 2

\* largest concurrency limit tried (concurrencyLimit is 60 in the source)
MaxCap == 2

\* largest number of items of a decoded feed
MaxItems == 1

----------------------------------------------------------------------------
(* Time stamps, in months.  A *time.Time that is nil is Nil; the zero      *)
(* value of time.Time (year 1) is ZeroTime.                                *)

Nil == -1

ZeroTime == 0

\* time.Now(), in months since the zero time
Now == 24

\* time.Now().AddDate(0, -6, 0)
SixMonthsAgo == Now - 6

\* t.Before(u)
Before(t, u) == t < u

Stamps == {Now - 7, Now - 6, Now - 5}

----------------------------------------------------------------------------
(* Texts *)

Contains(text, tok) == \E k \in DOMAIN text : text[k] = tok

RECURSIVE TrimLeft(_)
TrimLeft(s) == IF s # <<>> /\ Head(s) = " " THEN TrimLeft(Tail(s)) ELSE s

RECURSIVE TrimRight(_)
TrimRight(s) ==
    IF s # <<>> /\ s[Len(s)] = " " THEN TrimRight(SubSeq(s, 1, Len(s) - 1)) ELSE s

\* strings.TrimSpace
TrimSpace(s) == TrimRight(TrimLeft(s))

\* http.NewRequestWithContext fails when url.Parse fails; the token "%"
\* stands for an invalid escape
NewRequestFails(url) == Contains(url, "%")

ReqErrText(url) == <<"parse ">> \o url \o <<": invalid URL escape">>

CtxErrText(url) == <<"Get ">> \o url \o <<": ", "context deadline exceeded">>

RefusedErrText(url) == <<"Get ">> \o url \o <<": ", "dial tcp: connect: connection refused">>

HeaderErrText(url) == <<"Get ">> \o url \o <<": ", "net/http: timeout awaiting response headers">>

\* faulty variant: only a cancelled context is taken for a timeout
IsTimeoutErrCanceledOnly(err) == Contains(err, "context canceled")

\* strings.Contains(err.Error(), "context canceled") ||
\* strings.Contains(err.Error(), "context deadline exceeded")
IsTimeoutErr(err) ==
    Contains(err, "context canceled") \/ Contains(err, "context deadline exceeded")

----------------------------------------------------------------------------
(* The environment of one input entry: what the server does on the k-th    *)
(* request for it, and the body it serves with a 200 response.             *)

Answer(code) == [net |-> "ok", code |-> code]

\* net = "hang": no answer arrives (until the context deadline);
\* net = "refused": the connection fails at once;
\* net = "noheaders": connected, but no response header arrives
Failure(kind) == [net |-> kind, code |-> 0]

StatusCodes == {200, 204, 404, 429, 503}

Answers == {Answer(c) : c \in StatusCodes} \cup {Failure(k) : k \in {"hang", "refused", "noheaders"}}

Scripts == [1..maxRetries -> Answers]

\* io.ReadAll fails
ReadErrBody == [kind |-> "readerr", text |-> <<"unexpected EOF">>, items |-> <<>>, updated |-> Nil]

\* parser.Parse fails with the error text
ParseErrBody(text) == [kind |-> "parseerr", text |-> text, items |-> <<>>, updated |-> Nil]

ParseErrTexts ==
    { <<"XML syntax error on line 1: unexpected ", "EOF">>,
      <<"no XML", " found">>,
      <<"Failed to detect feed type">> }

\* a decoded gofeed.Feed: UpdatedParsed and the PublishedParsed of each item
\* (only the first item's is ever read)
FeedBody(updated, items) == [kind |-> "feed", text |-> <<>>, items |-> items, updated |-> updated]

ItemLists ==
    {<<>>} \cup { [k \in 1..n |-> IF k = 1 THEN p ELSE Nil] : n \in 1..MaxItems, p \in Stamps \cup {Nil} }

Bodies ==
    {ReadErrBody} \cup {ParseErrBody(t) : t \in ParseErrTexts}
    \cup {FeedBody(u, it) : u \in Stamps \cup {Nil}, it \in ItemLists}

URLTexts == { <<"a">>, <<" ", "a", " ">>, <<"%">> }

Site(url, script, body) == [url |-> url, script |-> script, body |-> body]

AllSites == { Site(u, s, b) : u \in URLTexts, s \in Scripts, b \in Bodies }

Always(a) == [k \in 1..maxRetries |-> a]

FreshFeed == FeedBody(Now - 5, <<Nil>>)

\* the sites the dispatcher is run over: one per kind of outcome
DispatchSites ==
    { Site(<<"a", " ">>, Always(Answer(200)), FreshFeed),
      Site(<<"b">>, Always(Answer(404)), FreshFeed),
      Site(<<"c">>, Always(Answer(503)), FreshFeed),
      Site(<<"d">>, <<Answer(429), Answer(200), Answer(200)>>, FeedBody(Nil, <<>>)),
      Site(<<"%">>, Always(Answer(200)), FreshFeed) }

\* sites whose requests fail in the transport: refused connections, a
\* request that hangs after a 503, a response header that does not arrive
RetrySites ==
    { Site(<<"a">>, Always(Failure("refused")), FreshFeed),
      Site(<<"b">>, <<Answer(503), Failure("hang"), Answer(200)>>, FreshFeed),
      Site(<<"c">>, <<Failure("noheaders"), Answer(429), Answer(200)>>, FreshFeed) }

----------------------------------------------------------------------------
(* validateFeed *)

\* type ValidationResult
ValidationResult(url, status, message, itemCount, lastUpdate) ==
    [URL |-> url, Status |-> status, Message |-> message,
     ItemCount |-> itemCount, LastUpdate |-> lastUpdate]

\* no result yet
NoResult == ValidationResult(<<>>, "none", <<>>, 0, ZeroTime)

TimeoutMessage == <<"Request timed out after ", ToString(timeoutSeconds), " seconds">>

StatusMessage(code) == <<"HTTP status ", ToString(code)>>

ExhaustedMessage(code) ==
    <<"Failed after ", ToString(maxRetries), " attempts, last status: ", ToString(code)>>

NoItemsWarning == <<"Warning: No feed items">>

StaleWarning == <<"Warning: Feed hasn't been updated in over 6 months">>

Min(a, b) == IF a < b THEN a ELSE b

\* the deadline of the context of line 35 has passed
DeadlineExceeded(elapsed) == elapsed >= timeoutSeconds

\* client.Do(req) at `elapsed` seconds after the context was created, the
\* server doing `answer`: the response status (0: resp is nil), the error
\* (<<>>: nil) and the time at which the call returns.  The request carries
\* the context of line 35, so the call fails once that deadline has passed.
ClientDo(url, elapsed, answer) ==
    IF DeadlineExceeded(elapsed)
    THEN [resp |-> 0, err |-> CtxErrText(url), elapsed |-> elapsed]
    ELSE CASE answer.net = "ok" ->
                [resp |-> answer.code, err |-> <<>>, elapsed |-> elapsed]
           [] answer.net = "refused" ->
                [resp |-> 0, err |-> RefusedErrText(url), elapsed |-> elapsed]
           [] answer.net = "noheaders" ->
                IF DeadlineExceeded(elapsed + ResponseHeaderTimeout)
                THEN [resp |-> 0, err |-> CtxErrText(url), elapsed |-> timeoutSeconds]
                ELSE [resp |-> 0, err |-> HeaderErrText(url),
                      elapsed |-> elapsed + ResponseHeaderTimeout]
           [] OTHER ->
                [resp |-> 0, err |-> CtxErrText(url), elapsed |-> timeoutSeconds]

\* line 75: a client error that is not retried
IsClientError(code) == code >= 400 /\ code < 500 /\ code # 429

\* faulty variant: client errors are retried like every other failure
LoopStepRetryClientErrors(attempt, resp, err) ==
    IF err # <<>> \/ resp # 200
    THEN IF attempt = maxRetries THEN "break" ELSE "sleep"
    ELSE "break"

\* faulty variant: a 200 response does not leave the loop
LoopStepNoBreak(attempt, resp, err) ==
    IF err = <<>> /\ resp # 200 /\ IsClientError(resp) THEN "return"
    ELSE IF attempt = maxRetries THEN "break" ELSE "sleep"

\* lines 53-91: what the loop body does with the outcome of client.Do
\* "return": return at line 76; "break": leave the loop; "sleep": back off
\* and go on with the next attempt
LoopStep(attempt, resp, err) ==
    IF err # <<>>
    THEN IF attempt = maxRetries THEN "break" ELSE "sleep"
    ELSE IF resp # 200
         THEN IF IsClientError(resp) THEN "return"
              ELSE IF attempt = maxRetries THEN "break" ELSE "sleep"
         ELSE "break"

\* faulty variant: the body of a non-200 response is left open
BodiesAfterAttemptNoClose(open, resp, err) == IF err # <<>> THEN open ELSE open + 1

\* the response bodies the validation holds open after client.Do and the
\* loop body: a response comes with an open body (line 51); line 72 closes
\* the body of a non-200 response
BodiesAfterAttempt(open, resp, err) ==
    IF err # <<>> THEN open
    ELSE IF resp # 200 THEN (open + 1) - 1
    ELSE open + 1

\* line 110: the deferred resp.Body.Close() runs at every return after it;
\* the returns of lines 97, 99 and 107 come before it and close nothing
BodiesAfterReturn(open, resp, err) ==
    IF err = <<>> /\ resp # 0 /\ resp = 200 THEN open - 1 ELSE open

\* faulty variant: the backoff is not doubled
NextBackoffConstant(backoff) == backoff

\* line 66, line 86
NextBackoff(backoff) == backoff * 2

\* faulty variant: the first item's published timestamp is preferred
LastUpdateOfItemFirst(feed) ==
    IF Len(feed.items) > 0 /\ feed.items[1] # Nil THEN feed.items[1]
    ELSE IF feed.updated # Nil THEN feed.updated
    ELSE ZeroTime

\* lines 135-140
LastUpdateOf(feed) ==
    IF feed.updated # Nil THEN feed.updated
    ELSE IF Len(feed.items) > 0 /\ feed.items[1] # Nil THEN feed.items[1]
    ELSE ZeroTime

\* lines 142-147
WarningOf(feed, lastUpdate) ==
    IF Len(feed.items) = 0 THEN NoItemsWarning
    ELSE IF Before(lastUpdate, SixMonthsAgo) THEN StaleWarning
    ELSE <<>>

\* lines 129-149
Classify(url, feed) ==
    ValidationResult(url, "valid", WarningOf(feed, LastUpdateOf(feed)),
                     Len(feed.items), LastUpdateOf(feed))

\* faulty variant: only "EOF" is looked for in the decoder's error text
DecodeErrorResultEOFOnly(url, text) ==
    IF Contains(text, "EOF")
    THEN ValidationResult(url, "invalid", <<"Not a valid feed format">>, 0, ZeroTime)
    ELSE ValidationResult(url, "invalid", text, 0, ZeroTime)

\* lines 118-127
DecodeErrorResult(url, text) ==
    IF Contains(text, "EOF") \/ Contains(text, "no XML")
    THEN ValidationResult(url, "invalid", <<"Not a valid feed format">>, 0, ZeroTime)
    ELSE ValidationResult(url, "invalid", text, 0, ZeroTime)

\* faulty variant: the status of the response is looked at before the error
AfterLoopStatusFirst(url, resp, err, body) ==
    IF resp = 0 \/ resp # 200
    THEN ValidationResult(url, "transient", ExhaustedMessage(resp), 0, ZeroTime)
    ELSE IF body.kind = "readerr"
    THEN ValidationResult(url, "transient", <<"Error reading response: ">> \o body.text, 0, ZeroTime)
    ELSE IF body.kind = "parseerr"
    THEN DecodeErrorResult(url, body.text)
    ELSE Classify(url, body)

\* lines 94-149: after the loop
AfterLoop(url, resp, err, body) ==
    IF err # <<>>
    THEN IF IsTimeoutErr(err)
         THEN ValidationResult(url, "transient", TimeoutMessage, 0, ZeroTime)
         ELSE ValidationResult(url, "transient", err, 0, ZeroTime)
    ELSE IF resp = 0 \/ resp # 200
    THEN ValidationResult(url, "transient", ExhaustedMessage(resp), 0, ZeroTime)
    ELSE IF body.kind = "readerr"
    THEN ValidationResult(url, "transient", <<"Error reading response: ">> \o body.text, 0, ZeroTime)
    ELSE IF body.kind = "parseerr"
    THEN DecodeErrorResult(url, body.text)
    ELSE Classify(url, body)

----------------------------------------------------------------------------
(* State *)

VARIABLES
    urls,              \* main: the input URL list
    server,            \* the environment of each entry of urls
    concurrencyLimit,  \* the weight of the semaphore
    mainpc,            \* main: where it stands
    idx,               \* main: the index of the dispatch loop
    sem,               \* sem: the permits held
    wg,                \* wg: the counter of the WaitGroup
    resultsChan,       \* the buffer of the result channel
    closed,            \* the result channel is closed
    closer,            \* the goroutine of line 274: where it stands
    tasks,             \* the goroutine of line 252 of each entry, and its validateFeed
    results,           \* main: the collected results
    summary,           \* main: valid, invalid, transient, warnings, total
    run,               \* which run of the program this is
    firstRun,          \* the results and the summary of the first run
    stdoutLine         \* os.Stdout: the pieces written after the last newline

vars == <<urls, server, concurrencyLimit, mainpc, idx, sem, wg, resultsChan, closed,
          closer, tasks, results, summary, run, firstRun, stdoutLine>>

Entries == DOMAIN urls

\* a goroutine that is not created yet
IdleTask ==
    [pc |-> "idle", url |-> <<>>, attempt |-> 0, backoff |-> 0, resp |-> 0, err |-> <<>>,
     elapsed |-> 0, result |-> NoResult, outcomes |-> <<>>, waits |-> <<>>, open |-> 0]

\* the goroutine of entry t stands at `label`
At(t, label) == t \in Entries /\ tasks[t].pc = label

NoSummary == [valid |-> 0, invalid |-> 0, transient |-> 0, warnings |-> 0, total |-> 0]

\* main at line 238, the input read
Start(sites, limit) ==
    /\ urls = [k \in DOMAIN sites |-> sites[k].url]
    /\ server = [k \in DOMAIN sites |-> [script |-> sites[k].script, body |-> sites[k].body]]
    /\ concurrencyLimit = limit
    /\ mainpc = "acquire"
    /\ idx = 1
    /\ sem = 0
    /\ wg = 0
    /\ resultsChan = <<>>
    /\ closed = FALSE
    /\ closer = "idle"
    /\ tasks = [k \in DOMAIN sites |-> IdleTask]
    /\ results = <<>>
    /\ summary = NoSummary
    /\ run = 1
    /\ firstRun = [results |-> <<>>, summary |-> NoSummary]
    /\ stdoutLine = <<>>

Init == \E sites \in [1..NumURLs -> DispatchSites], limit \in 1..MaxCap : Start(sites, limit)

\* one URL, every environment
InitOne == \E site \in AllSites : Start(<<site>>, 1)

\* several URLs whose requests fail in the transport
InitRetry == \E sites \in [1..NumURLs -> RetrySites], limit \in 1..MaxCap : Start(sites, limit)

----------------------------------------------------------------------------
(* validateFeed, run by the goroutine of entry t *)

\* faulty variant: the error of http.NewRequestWithContext is ignored
BeginFetchAnyway(t) ==
    /\ At(t, "begin")
    /\ tasks' = [tasks EXCEPT ![t] =
           [@ EXCEPT !.pc = "do", !.url = TrimSpace(urls[t]), !.attempt = 1, !.backoff = 1]]
    /\ UNCHANGED <<urls, server, concurrencyLimit, mainpc, idx, sem, wg, resultsChan,
                   closed, closer, results, summary, run, firstRun, stdoutLine>>

\* lines 33-48: trim, context, request
Begin(t) ==
    /\ At(t, "begin")
    /\ LET url == TrimSpace(urls[t]) IN
       tasks' = [tasks EXCEPT ![t] =
           IF NewRequestFails(url)
           THEN [@ EXCEPT !.pc = "send", !.url = url,
                          !.result = ValidationResult(url, "invalid",
                                        <<"Invalid URL: ">> \o ReqErrText(url), 0, ZeroTime)]
           ELSE [@ EXCEPT !.pc = "do", !.url = url, !.attempt = 1, !.backoff = 1]]
    /\ UNCHANGED <<urls, server, concurrencyLimit, mainpc, idx, sem, wg, resultsChan,
                   closed, closer, results, summary, run, firstRun, stdoutLine>>

\* lines 51-91: one fetch attempt and what the loop does with its outcome
Attempt(t) ==
    /\ At(t, "do")
    /\ LET me == tasks[t]
           o == ClientDo(me.url, me.elapsed, server[t].script[me.attempt])
           step == LoopStep(me.attempt, o.resp, o.err)
           seen == Append(me.outcomes, [resp |-> o.resp, err |-> o.err])
       IN tasks' = [tasks EXCEPT ![t] =
              [@ EXCEPT !.resp = o.resp, !.err = o.err, !.elapsed = o.elapsed,
                        !.outcomes = seen,
                        !.open = BodiesAfterAttempt(@, o.resp, o.err),
                        !.pc = CASE step = "return" -> "send"
                                 [] step = "sleep" -> "sleep"
                                 [] OTHER -> "after",
                        !.result = IF step = "return"
                                   THEN ValidationResult(me.url, "invalid",
                                            StatusMessage(o.resp), 0, ZeroTime)
                                   ELSE @]]
    /\ UNCHANGED <<urls, server, concurrencyLimit, mainpc, idx, sem, wg, resultsChan,
                   closed, closer, results, summary, run, firstRun, stdoutLine>>

\* lines 65-67, 85-87: time.Sleep(backoff * time.Second) returns; backoff
\* doubles; the loop goes on with the next attempt
Sleep(t) ==
    /\ At(t, "sleep")
    /\ tasks' = [tasks EXCEPT ![t] =
           [@ EXCEPT !.elapsed = Min(@ + tasks[t].backoff, timeoutSeconds),
                     !.waits = Append(@, tasks[t].backoff),
                     !.backoff = NextBackoff(@),
                     !.attempt = @ + 1,
                     !.pc = "do"]]
    /\ UNCHANGED <<urls, server, concurrencyLimit, mainpc, idx, sem, wg, resultsChan,
                   closed, closer, results, summary, run, firstRun, stdoutLine>>

\* lines 94-149: the result after the loop
Finish(t) ==
    /\ At(t, "after")
    /\ tasks' = [tasks EXCEPT ![t] =
           [@ EXCEPT !.result = AfterLoop(tasks[t].url, tasks[t].resp, tasks[t].err,
                                          server[t].body),
                     !.open = BodiesAfterReturn(@, tasks[t].resp, tasks[t].err),
                     !.pc = "send"]]
    /\ UNCHANGED <<urls, server, concurrencyLimit, mainpc, idx, sem, wg, resultsChan,
                   closed, closer, results, summary, run, firstRun, stdoutLine>>

----------------------------------------------------------------------------
(* The goroutine of line 252, after validateFeed *)

\* faulty variant: the channel has no buffer, a send waits for the receiver
SendUnbuffered(t) ==
    /\ At(t, "send")
    /\ ~closed
    /\ mainpc = "collect"
    /\ resultsChan = <<>>
    /\ resultsChan' = Append(resultsChan, tasks[t].result)
    /\ tasks' = [tasks EXCEPT ![t].pc = "print"]
    /\ UNCHANGED <<urls, server, concurrencyLimit, mainpc, idx, sem, wg, closed, closer,
                   results, summary, run, firstRun, stdoutLine>>

\* line 257: resultsChan <- result (the buffer holds len(urls) results)
Send(t) ==
    /\ At(t, "send")
    /\ ~closed
    /\ Len(resultsChan) < Len(urls)
    /\ resultsChan' = Append(resultsChan, tasks[t].result)
    /\ tasks' = [tasks EXCEPT ![t].pc = "print"]
    /\ UNCHANGED <<urls, server, concurrencyLimit, mainpc, idx, sem, wg, closed, closer,
                   results, summary, run, firstRun, stdoutLine>>

\* a piece that the goroutine of entry t writes to os.Stdout
Piece(t, part) == [task |-> t, part |-> part]

\* lines 259-266: fmt.Printf("%s %s -> %s", statusSymbol, result.URL, result.Status)
PrintHead(t) ==
    /\ At(t, "print")
    /\ stdoutLine' = Append(stdoutLine, Piece(t, "head"))
    /\ tasks' = [tasks EXCEPT ![t].pc =
                    IF tasks[t].result.Message # <<>> THEN "printmsg" ELSE "println"]
    /\ UNCHANGED <<urls, server, concurrencyLimit, mainpc, idx, sem, wg, resultsChan,
                   closed, closer, results, summary, run, firstRun>>

\* lines 267-269: fmt.Printf(" (%s)", result.Message)
PrintMessage(t) ==
    /\ At(t, "printmsg")
    /\ stdoutLine' = Append(stdoutLine, Piece(t, "message"))
    /\ tasks' = [tasks EXCEPT ![t].pc = "println"]
    /\ UNCHANGED <<urls, server, concurrencyLimit, mainpc, idx, sem, wg, resultsChan,
                   closed, closer, results, summary, run, firstRun>>

\* line 270: fmt.Println() ends the line that is open on os.Stdout
PrintNewline(t) ==
    /\ At(t, "println")
    /\ stdoutLine' = <<>>
    /\ tasks' = [tasks EXCEPT ![t].pc = "release"]
    /\ UNCHANGED <<urls, server, concurrencyLimit, mainpc, idx, sem, wg, resultsChan,
                   closed, closer, results, summary, run, firstRun>>

\* line 254, deferred: sem.Release(1)
Release(t) ==
    /\ At(t, "release")
    /\ sem' = sem - 1
    /\ tasks' = [tasks EXCEPT ![t].pc = "wgdone"]
    /\ UNCHANGED <<urls, server, concurrencyLimit, mainpc, idx, wg, resultsChan, closed,
                   closer, results, summary, run, firstRun, stdoutLine>>

\* faulty variant: wg.Done() is reached only with a valid result
DoneNoSignal(t) ==
    /\ At(t, "wgdone")
    /\ wg' = IF tasks[t].result.Status = "valid" THEN wg - 1 ELSE wg
    /\ tasks' = [tasks EXCEPT ![t].pc = "ended"]
    /\ UNCHANGED <<urls, server, concurrencyLimit, mainpc, idx, sem, resultsChan, closed,
                   closer, results, summary, run, firstRun, stdoutLine>>

\* line 253, deferred: wg.Done(); the goroutine ends
Done(t) ==
    /\ At(t, "wgdone")
    /\ wg' = wg - 1
    /\ tasks' = [tasks EXCEPT ![t].pc = "ended"]
    /\ UNCHANGED <<urls, server, concurrencyLimit, mainpc, idx, sem, resultsChan, closed,
                   closer, results, summary, run, firstRun, stdoutLine>>

----------------------------------------------------------------------------
(* main *)

\* faulty variant: the permit is taken without waiting for a free one
AcquireNoWait ==
    /\ mainpc = "acquire"
    /\ sem' = sem + 1
    /\ mainpc' = "spawn"
    /\ UNCHANGED <<urls, server, concurrencyLimit, idx, wg, resultsChan, closed, closer,
                   tasks, results, summary, run, firstRun, stdoutLine>>

\* faulty variant: TryAcquire, and the URL is skipped when no permit is free
AcquireOrSkip ==
    /\ mainpc = "acquire"
    /\ IF sem < concurrencyLimit
       THEN sem' = sem + 1 /\ mainpc' = "spawn" /\ idx' = idx
       ELSE sem' = sem /\ idx' = idx + 1
            /\ mainpc' = IF idx = Len(urls) THEN "gocloser" ELSE "acquire"
    /\ UNCHANGED <<urls, server, concurrencyLimit, wg, resultsChan, closed, closer,
                   tasks, results, summary, run, firstRun, stdoutLine>>

\* faulty variant: the whole weight of the semaphore is acquired
AcquireWholeWeight ==
    /\ mainpc = "acquire"
    /\ sem = 0
    /\ sem' = concurrencyLimit
    /\ mainpc' = "spawn"
    /\ UNCHANGED <<urls, server, concurrencyLimit, idx, wg, resultsChan, closed, closer,
                   tasks, results, summary, run, firstRun, stdoutLine>>

\* line 245: sem.Acquire(context.Background(), 1) blocks until a permit is
\* free; its context is never done, so it returns no error
Acquire ==
    /\ mainpc = "acquire"
    /\ sem < concurrencyLimit
    /\ sem' = sem + 1
    /\ mainpc' = "spawn"
    /\ UNCHANGED <<urls, server, concurrencyLimit, idx, wg, resultsChan, closed, closer,
                   tasks, results, summary, run, firstRun, stdoutLine>>

\* lines 250-272: wg.Add(1), go func(feedURL), next URL
Spawn ==
    /\ mainpc = "spawn"
    /\ wg' = wg + 1
    /\ tasks' = [tasks EXCEPT ![idx].pc = "begin"]
    /\ idx' = idx + 1
    /\ mainpc' = IF idx = Len(urls) THEN "gocloser" ELSE "acquire"
    /\ UNCHANGED <<urls, server, concurrencyLimit, sem, resultsChan, closed, closer,
                   results, summary, run, firstRun, stdoutLine>>

\* line 274: go func() { wg.Wait(); close(resultsChan) }
GoCloser ==
    /\ mainpc = "gocloser"
    /\ closer' = "wait"
    /\ mainpc' = "collect"
    /\ UNCHANGED <<urls, server, concurrencyLimit, idx, sem, wg, resultsChan, closed,
                   tasks, results, summary, run, firstRun, stdoutLine>>

\* faulty variant: the channel is closed without wg.Wait()
CloseEarly ==
    /\ closer = "wait"
    /\ closed' = TRUE
    /\ closer' = "ended"
    /\ UNCHANGED <<urls, server, concurrencyLimit, mainpc, idx, sem, wg, resultsChan,
                   tasks, results, summary, run, firstRun, stdoutLine>>

\* lines 275-276: wg.Wait() returns, close(resultsChan)
Close ==
    /\ closer = "wait"
    /\ wg = 0
    /\ closed' = TRUE
    /\ closer' = "ended"
    /\ UNCHANGED <<urls, server, concurrencyLimit, mainpc, idx, sem, wg, resultsChan,
                   tasks, results, summary, run, firstRun, stdoutLine>>

\* lines 280-282: one receive of the range loop
Collect ==
    /\ mainpc = "collect"
    /\ resultsChan # <<>>
    /\ results' = Append(results, Head(resultsChan))
    /\ resultsChan' = Tail(resultsChan)
    /\ UNCHANGED <<urls, server, concurrencyLimit, mainpc, idx, sem, wg, closed, closer,
                   tasks, summary, run, firstRun, stdoutLine>>

\* line 280: the range loop ends, the channel closed and drained
EndCollect ==
    /\ mainpc = "collect"
    /\ resultsChan = <<>>
    /\ closed
    /\ mainpc' = "report"
    /\ UNCHANGED <<urls, server, concurrencyLimit, idx, sem, wg, resultsChan, closed,
                   closer, tasks, results, summary, run, firstRun, stdoutLine>>

\* the number of collected results that satisfy a case of the switch
CountStatus(rs, status) == Cardinality({k \in DOMAIN rs : rs[k].Status = status})

\* faulty variant: every result with a message counts as a warning
SummariseWarningsAnyStatus(rs) ==
    [valid |-> CountStatus(rs, "valid"),
     warnings |-> Cardinality({k \in DOMAIN rs : rs[k].Message # <<>>}),
     invalid |-> CountStatus(rs, "invalid"),
     transient |-> CountStatus(rs, "transient"),
     total |-> Len(rs)]

\* lines 285-302: the counters
Summarise(rs) ==
    [valid |-> CountStatus(rs, "valid"),
     warnings |-> Cardinality({k \in DOMAIN rs :
                                 rs[k].Status = "valid" /\ rs[k].Message # <<>>}),
     invalid |-> CountStatus(rs, "invalid"),
     transient |-> CountStatus(rs, "transient"),
     total |-> Len(rs)]

\* lines 285-307: the report; each of its lines is written by one Printf
\* that ends with a newline
Report ==
    /\ mainpc = "report"
    /\ summary' = Summarise(results)
    /\ mainpc' = "done"
    /\ stdoutLine' = <<>>
    /\ UNCHANGED <<urls, server, concurrencyLimit, idx, sem, wg, resultsChan, closed,
                   closer, tasks, results, run, firstRun>>

\* the program is run once more over the same input and the same
\* environment, with another concurrency limit
RunAgain ==
    /\ mainpc = "done"
    /\ run = 1
    /\ run' = 2
    /\ firstRun' = [results |-> results, summary |-> summary]
    /\ \E limit \in (1..MaxCap) \ {concurrencyLimit} : concurrencyLimit' = limit
    /\ mainpc' = "acquire"
    /\ idx' = 1
    /\ sem' = 0
    /\ wg' = 0
    /\ resultsChan' = <<>>
    /\ closed' = FALSE
    /\ closer' = "idle"
    /\ tasks' = [k \in Entries |-> IdleTask]
    /\ results' = <<>>
    /\ summary' = NoSummary
    /\ stdoutLine' = <<>>
    /\ UNCHANGED <<urls, server>>

Task(t) ==
    \/ Begin(t) \/ Attempt(t) \/ Sleep(t) \/ Finish(t)
    \/ Send(t) \/ PrintHead(t) \/ PrintMessage(t) \/ PrintNewline(t)
    \/ Release(t) \/ Done(t)

Main == Acquire \/ Spawn \/ GoCloser \/ Collect \/ EndCollect \/ Report

Next == Main \/ Close \/ \E t \in 1..NumURLs : Task(t)

Spec == Init /\ [][Next]_vars

\* validateFeed over every environment of one URL
SpecOne == InitOne /\ [][Next]_vars

\* two runs
SpecTwo == Init /\ [][Next \/ RunAgain]_vars

\* validateFeed over every environment of one URL, and concurrent
\* validations of URLs whose requests fail in the transport
SpecAny == (InitOne \/ InitRetry) /\ [][Next]_vars

\* every goroutine that can take a step eventually takes one
Fairness ==
    /\ WF_vars(Main)
    /\ WF_vars(Close)
    /\ \A t \in 1..NumURLs : WF_vars(Task(t))

FairSpec == Init /\ [][Next]_vars /\ Fairness

----------------------------------------------------------------------------
(* Helpers of the properties *)

Range(seq) == {seq[k] : k \in DOMAIN seq}

\* the multiset of the elements of a sequence
BagOfSeq(seq) == [x \in Range(seq) |-> Cardinality({k \in DOMAIN seq : seq[k] = x})]

\* validateFeed of entry t has returned
Returned(t) ==
    tasks[t].pc \in {"send", "print", "printmsg", "println", "release", "wgdone", "ended"}

\* the goroutine of entry t exists: created and not ended
Alive(t) == tasks[t].pc \notin {"idle", "ended"}

\* the goroutine of entry t holds its permit: its deferred sem.Release has not run
HoldsPermit(t) == tasks[t].pc \notin {"idle", "wgdone", "ended"}

Collected == mainpc \in {"report", "done"}

----------------------------------------------------------------------------
(* C1 *)

\* C1: when main has finished collecting, results holds exactly one
\* ValidationResult per entry of urls: as many results as entries, the
\* multiset of their URL fields is the multiset of the trimmed input URLs,
\* and the results are those the goroutines produced, none lost, none twice.
C1_OneResultPerURL ==
    Collected =>
        /\ Len(results) = Len(urls)
        /\ BagOfSeq([k \in DOMAIN results |-> results[k].URL])
             = BagOfSeq([k \in Entries |-> TrimSpace(urls[k])])
        /\ BagOfSeq(results) = BagOfSeq([k \in Entries |-> tasks[k].result])

C1_Witness ==
    /\ mainpc = "done"
    /\ \E j, k \in DOMAIN results :
          /\ results[j].Status = "invalid"
          /\ results[k].Status \in {"valid", "transient"}
          /\ k < j

----------------------------------------------------------------------------
(* C2 *)

\* C2 as claimed: at most concurrencyLimit goroutines are created and not
\* yet ended.
C2_AliveAtMostLimit ==
    Cardinality({t \in Entries : Alive(t)}) <= concurrencyLimit

\* C2, amended: at most concurrencyLimit goroutines are created and have not
\* yet run their deferred sem.Release; the permits held are those of these
\* goroutines and the one main has acquired for the goroutine it is about to
\* create.
C2_PermitHoldersAtMostLimit ==
    /\ Cardinality({t \in Entries : HoldsPermit(t)}) <= concurrencyLimit
    /\ sem = Cardinality({t \in Entries : HoldsPermit(t)})
               + (IF mainpc = "spawn" THEN 1 ELSE 0)
    /\ sem <= concurrencyLimit

\* the limit is reached and main waits for a permit
C2_Witness ==
    /\ mainpc = "acquire"
    /\ idx <= Len(urls)
    /\ Cardinality({t \in Entries : HoldsPermit(t)}) = concurrencyLimit

----------------------------------------------------------------------------
(* C3 *)

\* C3: under fair scheduling every run ends: every goroutine ends with a
\* result, the channel is closed, the collecting loop ends with every
\* result collected and the report is made.
C3_Terminates ==
    <>( /\ mainpc = "done"
        /\ closed
        /\ closer = "ended"
        /\ \A t \in Entries : tasks[t].pc = "ended" /\ tasks[t].result.Status # "none"
        /\ Len(results) = Len(urls) )

C3_Witness ==
    /\ mainpc = "done"
    /\ closed
    /\ \A t \in Entries : tasks[t].pc = "ended"
    /\ \E t \in Entries : tasks[t].result.Status = "transient"
    /\ \E t \in Entries : tasks[t].result.Status = "invalid"

----------------------------------------------------------------------------
(* C4 *)

\* the status of a response that is a client error other than 429
Rejection(code) == code \in 400..499 /\ code # 429

\* C4: a response with a status in [400,500) other than 429 is the last
\* attempt of its validation: validateFeed has returned at once, without a
\* backoff wait after it, with status invalid and message "HTTP status N";
\* and an entry whose server answers 404 to the first request is fetched
\* once, with a message that contains "404".
C4_ClientErrorEndsLoop ==
    \A t \in Entries :
        /\ \A k \in DOMAIN tasks[t].outcomes :
              Rejection(tasks[t].outcomes[k].resp) =>
                  /\ k = Len(tasks[t].outcomes)
                  /\ Len(tasks[t].waits) = k - 1
                  /\ Returned(t)
                  /\ tasks[t].result.Status = "invalid"
                  /\ tasks[t].result.Message
                        = <<"HTTP status ", ToString(tasks[t].outcomes[k].resp)>>
        /\ (server[t].script[1] = Answer(404) /\ tasks[t].outcomes # <<>>) =>
              /\ Len(tasks[t].outcomes) = 1
              /\ tasks[t].waits = <<>>
              /\ Contains(tasks[t].result.Message, "404")

\* a 404 on the second attempt, after a retried failure
C4_Witness ==
    \E t \in Entries :
        /\ tasks[t].pc = "ended"
        /\ Len(tasks[t].outcomes) = 2
        /\ tasks[t].outcomes[2].resp = 404
        /\ tasks[t].result.Status = "invalid"

----------------------------------------------------------------------------
(* C5 *)

Statuses(t) == [k \in DOMAIN tasks[t].outcomes |-> tasks[t].outcomes[k].resp]

\* C5: a validation whose attempts 1 and 2 are answered 503 and whose
\* attempt 3 is answered 200 with a decodable feed returns status valid
\* after exactly 3 attempts; and a 200 response is always the last attempt
\* of its validation, with no backoff wait after it.
C5_FirstOKEndsLoop ==
    \A t \in Entries :
        /\ (Statuses(t) = <<503, 503, 200>> /\ server[t].body.kind = "feed" /\ Returned(t)) =>
              /\ tasks[t].result.Status = "valid"
              /\ tasks[t].attempt = 3
        /\ \A k \in DOMAIN tasks[t].outcomes :
              tasks[t].outcomes[k].resp = 200 =>
                  /\ k = Len(tasks[t].outcomes)
                  /\ Len(tasks[t].waits) = k - 1
                  /\ tasks[t].pc \notin {"do", "sleep"}

C5_Witness ==
    \E t \in Entries :
        /\ tasks[t].pc = "ended"
        /\ Statuses(t) = <<503, 503, 200>>
        /\ tasks[t].result.Status = "valid"
        /\ tasks[t].waits = <<1, 2>>

----------------------------------------------------------------------------
(* C6 *)

\* the k-th attempt of entry t ended at the deadline of its context
TimedOut(t, k) == Contains(tasks[t].outcomes[k].err, "context deadline exceeded")

\* C6: a validation all of whose maxRetries attempts end at the deadline
\* returns status transient with the message "Request timed out after N
\* seconds", N the configured timeout.
C6_TimeoutIsTransient ==
    \A t \in Entries :
        ( /\ Returned(t)
          /\ Len(tasks[t].outcomes) = maxRetries
          /\ \A k \in DOMAIN tasks[t].outcomes : TimedOut(t, k) ) =>
            /\ tasks[t].result.Status = "transient"
            /\ tasks[t].result.Message = <<"Request timed out after ", "30", " seconds">>
            /\ Contains(tasks[t].result.Message, ToString(timeoutSeconds))

C6_Witness ==
    \E t \in Entries :
        /\ tasks[t].pc = "ended"
        /\ \A k \in 1..maxRetries : server[t].script[k] = Failure("hang")
        /\ Len(tasks[t].outcomes) = maxRetries
        /\ \A k \in DOMAIN tasks[t].outcomes : TimedOut(t, k)
        /\ tasks[t].result.Status = "transient"

----------------------------------------------------------------------------
(* C7 *)

\* C7 as claimed: every attempt has its own deadline, so an attempt that the
\* server answers at once does not end at a deadline, whatever the attempts
\* before it did; and a validation whose first attempt times out and whose
\* second attempt is answered 200 at once is not reported as timed out.
C7_DeadlinePerAttempt ==
    \A t \in Entries :
        /\ \A k \in DOMAIN tasks[t].outcomes :
              server[t].script[k].net = "ok" => tasks[t].outcomes[k].err = <<>>
        /\ ( /\ Returned(t)
             /\ server[t].script[1] = Failure("hang")
             /\ server[t].script[2] = Answer(200) ) =>
               tasks[t].result.Message # TimeoutMessage

----------------------------------------------------------------------------
(* C8 *)

\* C8 as claimed: a decoded feed with no item gives valid with the message
\* "Warning: No feed items"; one with an item and no timestamp at all gives
\* valid with an empty message.
C8_NoTimestampNoWarning ==
    \A t \in Entries :
        (Returned(t) /\ tasks[t].result.Status = "valid") =>
            LET feed == server[t].body IN
            /\ Len(feed.items) = 0 =>
                  tasks[t].result.Message = <<"Warning: No feed items">>
            /\ (Len(feed.items) > 0 /\ feed.updated = Nil /\ feed.items[1] = Nil) =>
                  tasks[t].result.Message = <<>>

----------------------------------------------------------------------------
(* C9 *)

\* C9: for a decoded feed with an item and a timestamp, LastUpdate is the
\* feed's updated timestamp when it has one and the first item's published
\* timestamp otherwise, and the result is valid with the staleness warning
\* when LastUpdate is before now minus 6 months (7 months ago) and with an
\* empty message when it is not (5 months ago); for a feed with no item
\* the message is the no-items warning, whatever its timestamps.
C9_StalenessWarning ==
    \A t \in Entries :
        (Returned(t) /\ tasks[t].result.Status = "valid") =>
            LET feed == server[t].body
                r == tasks[t].result
                stamp == IF feed.updated # Nil THEN feed.updated ELSE feed.items[1]
            IN
            /\ r.ItemCount = Len(feed.items)
            /\ Len(feed.items) = 0 => r.Message = <<"Warning: No feed items">>
            /\ (Len(feed.items) > 0 /\ stamp # Nil) =>
                  /\ r.LastUpdate = stamp
                  /\ stamp < Now - 6 =>
                        r.Message = <<"Warning: Feed hasn't been updated in over 6 months">>
                  /\ stamp >= Now - 6 => r.Message = <<>>
                  /\ stamp = Now - 7 => r.Message # <<>>
                  /\ stamp = Now - 5 => r.Message = <<>>

\* the first item's published timestamp is used, and it is 7 months old
C9_Witness ==
    \E t \in Entries :
        /\ tasks[t].pc = "ended"
        /\ tasks[t].result.Status = "valid"
        /\ server[t].body.updated = Nil
        /\ tasks[t].result.ItemCount > 0
        /\ tasks[t].result.LastUpdate = Now - 7
        /\ tasks[t].result.Message # <<>>

----------------------------------------------------------------------------
(* C10 *)

\* C10: a second run over the same input and the same environment, with
\* another concurrency limit, ends with the same multiset of results (URL,
\* status, message, item count) and the same counters as the first.
C10_SameResultsForEveryLimit ==
    (run = 2 /\ mainpc = "done") =>
        /\ BagOfSeq(results) = BagOfSeq(firstRun.results)
        /\ summary = firstRun.summary

\* the two runs collected their results in different orders
C10_Witness ==
    /\ run = 2
    /\ mainpc = "done"
    /\ results # firstRun.results
    /\ summary.invalid > 0

----------------------------------------------------------------------------
(* C11 *)

\* the goroutine of entry t has written the first piece of its line and not
\* yet the newline that ends it
MidLine(t) == tasks[t].pc \in {"printmsg", "println"}

\* C11 as claimed: the line of a result is atomic: while a goroutine is
\* between the first and the last piece of its line, the open line of
\* os.Stdout holds its pieces and no piece of another goroutine.
C11_LineAtomic ==
    \A t \in Entries :
        MidLine(t) =>
            /\ stdoutLine # <<>>
            /\ \A k \in DOMAIN stdoutLine : stdoutLine[k].task = t

----------------------------------------------------------------------------
(* C12 *)

\* the entries whose validation returned `status`
WithStatus(status) == {t \in Entries : tasks[t].result.Status = status}

\* C12: the counters are written only in the report, by main, after the
\* channel is closed and every goroutine has ended; then valid + invalid +
\* transient = total = the number of input URLs, each counter is the number
\* of entries with that status, and warnings is the number of entries with
\* status valid and a non-empty message.
C12_CountersAfterClose ==
    /\ summary # NoSummary =>
          /\ mainpc = "done"
          /\ closed
          /\ \A t \in Entries : tasks[t].pc = "ended"
    /\ mainpc = "done" =>
          /\ summary.valid + summary.invalid + summary.transient = summary.total
          /\ summary.total = Len(urls)
          /\ summary.valid = Cardinality(WithStatus("valid"))
          /\ summary.invalid = Cardinality(WithStatus("invalid"))
          /\ summary.transient = Cardinality(WithStatus("transient"))
          /\ summary.warnings =
                Cardinality({t \in WithStatus("valid") : tasks[t].result.Message # <<>>})

\* one valid result with a warning, one result that is not valid
C12_Witness ==
    /\ mainpc = "done"
    /\ summary.warnings = 1
    /\ summary.valid = 1
    /\ summary.invalid + summary.transient = 1

----------------------------------------------------------------------------
(* C13 *)

RECURSIVE Pow2(_)
Pow2(n) == IF n = 0 THEN 1 ELSE 2 * Pow2(n - 1)

\* the k-th attempt of entry t failed in a way that is retried
RetryableFailure(t, k) ==
    LET o == tasks[t].outcomes[k] IN
    o.err # <<>> \/ (o.resp # 200 /\ ~Rejection(o.resp))

\* the attempts and the waits of one validation
BackoffSchedule(t) ==
    LET me == tasks[t] IN
    /\ Len(me.outcomes) <= 3
    /\ me.attempt <= 3
    /\ Len(me.waits) <= 2
    /\ \A k \in DOMAIN me.waits :
          /\ me.waits[k] = Pow2(k - 1)
          /\ k <= Len(me.outcomes)
          /\ RetryableFailure(t, k)
    /\ \A j, k \in DOMAIN me.waits : j <= k => me.waits[j] <= me.waits[k]
    /\ IF me.pc = "do"
       THEN Len(me.waits) = Len(me.outcomes) /\ me.attempt = Len(me.outcomes) + 1
       ELSE me.outcomes # <<>> =>
               Len(me.waits) = Len(me.outcomes) - 1 /\ me.attempt = Len(me.outcomes)

\* a step that changes the attempt counter, the backoff or the waits of
\* entry t is a step of the goroutine of t in its retry loop, and changes
\* nothing of another goroutine
BackoffLocal ==
    \A t \in Entries :
        ( \/ tasks'[t].attempt # tasks[t].attempt
          \/ tasks'[t].backoff # tasks[t].backoff
          \/ tasks'[t].waits # tasks[t].waits ) =>
            /\ tasks[t].pc \in {"begin", "sleep"}
            /\ tasks'[t].pc = "do"
            /\ \A u \in Entries \ {t} : tasks'[u] = tasks[u]

\* C13: one validation makes at most 3 attempts; a wait happens only after
\* a retryable failure of attempt k < 3, before attempt k + 1, and lasts
\* 2^(k-1) seconds (1, then 2); no wait follows the last attempt; and the
\* attempt counter and the backoff of a validation are changed only by its
\* own goroutine.
C13_BackoffSchedule ==
    /\ [](\A t \in Entries : BackoffSchedule(t))
    /\ [][BackoffLocal]_vars

\* two validations have both waited 1 and 2 seconds
C13_Witness ==
    /\ Len(urls) >= 2
    /\ \A t \in Entries : tasks[t].waits = <<1, 2>> /\ Len(tasks[t].outcomes) = 3
    /\ \E t \in Entries : tasks[t].outcomes[1].err # <<>>

----------------------------------------------------------------------------
(* C14 *)

\* validateFeed of entry t has returned after 3 attempts that all failed
\* in a way that is retried
Exhausted(t) ==
    /\ Returned(t)
    /\ Len(tasks[t].outcomes) = 3
    /\ \A k \in 1..3 : RetryableFailure(t, k)

\* the message of the transport error `err`
TransportMessage(err) ==
    IF Contains(err, "context deadline exceeded") \/ Contains(err, "context canceled")
    THEN <<"Request timed out after ", "30", " seconds">>
    ELSE err

SyntheticMessage(code) == <<"Failed after ", "3", " attempts, last status: ", ToString(code)>>

\* the last attempt of entry t that failed in the transport (0: none did)
LastTransportFailure(t) ==
    LET ks == {k \in DOMAIN tasks[t].outcomes : tasks[t].outcomes[k].err # <<>>}
    IN IF ks = {} THEN 0 ELSE CHOOSE k \in ks : \A j \in ks : j <= k

\* C14 as claimed: after 3 retryable failures the result is transient, with
\* the message of the last-seen transport error when some attempt failed in
\* the transport, and with the synthetic message only when every attempt
\* got a non-200 response.
C14_LastSeenTransportError ==
    \A t \in Entries :
        Exhausted(t) =>
            /\ tasks[t].result.Status = "transient"
            /\ IF LastTransportFailure(t) # 0
               THEN tasks[t].result.Message
                      = TransportMessage(tasks[t].outcomes[LastTransportFailure(t)].err)
               ELSE tasks[t].result.Message = SyntheticMessage(tasks[t].outcomes[3].resp)

\* C14, amended: after 3 retryable failures the result is transient and its
\* message is that of the last attempt: the message of its transport error
\* when attempt 3 failed in the transport, and the synthetic message with
\* the status of its response when attempt 3 got a non-200 response, also
\* when an earlier attempt failed in the transport.
C14_LastAttemptDecides ==
    \A t \in Entries :
        Exhausted(t) =>
            /\ tasks[t].result.Status = "transient"
            /\ IF tasks[t].outcomes[3].err # <<>>
               THEN tasks[t].result.Message = TransportMessage(tasks[t].outcomes[3].err)
               ELSE tasks[t].result.Message = SyntheticMessage(tasks[t].outcomes[3].resp)

\* two refused connections, then a 503: the synthetic message
C14_Witness ==
    \E t \in Entries :
        /\ tasks[t].pc = "ended"
        /\ Exhausted(t)
        /\ tasks[t].outcomes[1].err # <<>>
        /\ tasks[t].outcomes[2].err # <<>>
        /\ tasks[t].outcomes[3].resp = 503
        /\ tasks[t].result.Message = SyntheticMessage(503)

----------------------------------------------------------------------------
(* C15 *)

\* http.NewRequestWithContext fails for the trimmed text of entry t
Malformed(t) == NewRequestFails(TrimSpace(urls[t]))

\* C15: when request construction fails for the trimmed URL text,
\* validateFeed makes no fetch attempt and no backoff wait, and returns
\* status invalid with a message that starts with "Invalid URL: ".
C15_MalformedURLInvalid ==
    \A t \in Entries :
        Malformed(t) =>
            /\ tasks[t].outcomes = <<>>
            /\ tasks[t].waits = <<>>
            /\ tasks[t].pc \notin {"do", "sleep", "after"}
            /\ Returned(t) =>
                  /\ tasks[t].result.Status = "invalid"
                  /\ tasks[t].result.Message # <<>>
                  /\ tasks[t].result.Message[1] = "Invalid URL: "
                  /\ tasks[t].result.URL = TrimSpace(urls[t])

C15_Witness ==
    \E t \in Entries :
        /\ Malformed(t)
        /\ tasks[t].pc = "ended"
        /\ tasks[t].result.Status = "invalid"
        /\ tasks[t].outcomes = <<>>

----------------------------------------------------------------------------
(* C16 *)

\* attempt k of entry t got a 200 response whose body the parser rejects
DecodeFailure(t, k) ==
    /\ k \in DOMAIN tasks[t].outcomes
    /\ tasks[t].outcomes[k].err = <<>>
    /\ tasks[t].outcomes[k].resp = 200
    /\ server[t].body.kind = "parseerr"

\* C16: when decoding the body of a 200 response fails, no further fetch
\* attempt and no wait follows, and the result is status invalid with the
\* message "Not a valid feed format" when the decoder's error text
\* contains "EOF" or "no XML", and with that text unchanged otherwise.
C16_DecodeFailureInvalid ==
    \A t \in Entries : \A k \in DOMAIN tasks[t].outcomes :
        DecodeFailure(t, k) =>
            /\ k = Len(tasks[t].outcomes)
            /\ Len(tasks[t].waits) = k - 1
            /\ tasks[t].pc \notin {"do", "sleep"}
            /\ Returned(t) =>
                  /\ tasks[t].result.Status = "invalid"
                  /\ tasks[t].result.Message =
                        IF \E j \in DOMAIN server[t].body.text :
                               server[t].body.text[j] \in {"EOF", "no XML"}
                        THEN <<"Not a valid feed format">>
                        ELSE server[t].body.text

\* a decoding failure at the second attempt, its text passed through
C16_Witness ==
    \E t \in Entries :
        /\ tasks[t].pc = "ended"
        /\ Len(tasks[t].outcomes) = 2
        /\ DecodeFailure(t, 2)
        /\ tasks[t].result.Status = "invalid"
        /\ tasks[t].result.Message = <<"Failed to detect feed type">>

----------------------------------------------------------------------------
(* C18 *)

\* C18: a validation holds at most one open response body at any time; no
\* body is open during a backoff wait, at the start of an attempt, or once
\* validateFeed has returned; the only body ever held open is that of the
\* 200 response, between the end of the loop and the return.
C18_BodiesClosed ==
    \A t \in Entries :
        /\ tasks[t].open \in {0, 1}
        /\ tasks[t].pc \in {"do", "sleep"} => tasks[t].open = 0
        /\ Returned(t) => tasks[t].open = 0
        /\ tasks[t].open = 1 =>
              /\ tasks[t].pc = "after"
              /\ tasks[t].err = <<>>
              /\ tasks[t].resp = 200

\* a validation that has returned after a 503, a 429 and a 200 response
C18_Witness ==
    \E t \in Entries :
        /\ tasks[t].pc = "ended"
        /\ Len(tasks[t].outcomes) = 3
        /\ tasks[t].outcomes[1].resp = 503
        /\ tasks[t].outcomes[2].resp = 429
        /\ tasks[t].outcomes[3].resp = 200
        /\ tasks[t].result.Status = "valid"
        /\ tasks[t].open = 0

----------------------------------------------------------------------------
(* C17 *)

\* the goroutine of entry t is suspended in client.Do or in time.Sleep
Suspended(t) == tasks[t].pc \in {"do", "sleep"}

\* URLs remain to be dispatched
URLsRemain == idx <= Len(urls)

\* C17 as claimed: a suspended task blocks only itself; while some task is
\* suspended and URLs remain to be dispatched, the dispatcher and every
\* other task can take a step.
C17_SuspensionBlocksOnlyItself ==
    \A t \in Entries :
        (Suspended(t) /\ URLsRemain) =>
            /\ ENABLED Main
            /\ \A u \in Entries \ {t} : Alive(u) => ENABLED Task(u)

\* C17, amended: a suspended task holds its permit; it blocks no other
\* task, whether URLs remain or not, and while URLs remain the dispatcher
\* can take a step unless it waits for a permit and concurrencyLimit
\* goroutines, the suspended ones among them, hold theirs.
C17_SuspensionKeepsPermit ==
    \A t \in Entries :
        Suspended(t) =>
            /\ HoldsPermit(t)
            /\ sem >= 1
            /\ \A u \in Entries \ {t} : Alive(u) => ENABLED Task(u)
            /\ URLsRemain =>
                  (ENABLED Main <=>
                      ~(/\ mainpc = "acquire"
                        /\ Cardinality({u \in Entries : HoldsPermit(u)}) >= concurrencyLimit))

\* the dispatcher waits for the permit that a sleeping task holds
C17_Witness ==
    \E t \in Entries :
        /\ tasks[t].pc = "sleep"
        /\ URLsRemain
        /\ mainpc = "acquire"
        /\ sem = concurrencyLimit
        /\ ~ ENABLED Main

----------------------------------------------------------------------------
(* C19 *)

\* the goroutine of entry t has sent its result
Sent(t) == tasks[t].pc \in {"print", "printmsg", "println", "release", "wgdone", "ended"}

\* C19: the result channel is closed only after every task was created and
\* has sent its result; a task that stands at its send finds the channel
\* open and can send at once; nothing is collected before the dispatch loop
\* has ended; and some goroutine can take a step until main has reported
\* and every other goroutine has ended.
C19_NoSendOnClosedNoDeadlock ==
    /\ closed => \A t \in Entries : Sent(t)
    /\ \A t \in Entries : tasks[t].pc = "send" => (~closed /\ ENABLED Send(t))
    /\ Len(resultsChan) <= Len(urls)
    /\ URLsRemain => (results = <<>> /\ closer = "idle" /\ ~closed)
    /\ (~ ENABLED Next) =>
          /\ mainpc = "done"
          /\ closer = "ended"
          /\ \A t \in Entries : tasks[t].pc = "ended"

\* every result is in the channel before the closer is started and before
\* anything is collected
C19_Witness ==
    /\ mainpc = "gocloser"
    /\ Len(urls) >= 2
    /\ Len(resultsChan) = Len(urls)
    /\ results = <<>>
    /\ \A t \in Entries : Sent(t)

====
